---- MODULE Spec2Model ----
(***************************************************************************)
(* Model of the eth protocol test suite of cmd/devp2p/internal/acetest     *)
(* (suite.go): the Suite with its full and working chain, the connections  *)
(* a scenario dials, and the scenarios themselves, one action per blocking *)
(* step (dial, handshake, status exchange, write, read-and-classify).      *)
(* The peer is adversarial: during a read it sends what it likes, and the  *)
(* read returns what Conn.ReadAndServe makes of it.                        *)
(***************************************************************************)
EXTENDS Integers, Sequences, FiniteSets, Bags, TLC

\* ------------------------------------------------------------------ bounds
\* blocks the loaded chain file may hold beyond the 1000 of the working chain
MaxExtra == 1
\* scenarios run one after the other on one Suite
MaxRuns == 2
\* blocks the loaded chain file may lack of the 1000
MaxShort == 1

\* ------------------------------------------------------- program constants
ShortenTo == 1000
HeadersOrigin == 1
HeadersAmount == 2
HeadersSkip == 1
BodyA == 54
BodyB == 75
NumHandshakes == 5
NumReads == 2
NumBadAnnounce == 3
OurCaps == {64, 65}

\* ------------------------------------------------------------------ blocks
\* A block of the chain file: number, hash (its identity) and difficulty.
Difficulty(n) == 1 + (n % 2)
Block(n) == [number |-> n, hash |-> n, difficulty |-> Difficulty(n)]
\* A block the chain file does not hold, claiming number n.
ForgedBlock(n) == [number |-> n, hash |-> 0 - (n + 1), difficulty |-> Difficulty(n)]
NoBlock == [number |-> 0 - 1, hash |-> 0 - 1, difficulty |-> 0]
\* types.Block.Header(): the header names the block by number and hash.
Header(b) == [number |-> b.number, hash |-> b.hash, difficulty |-> b.difficulty]
Hash(b) == b.hash

\* A chain holds its blocks by hash (their identity); Block gives the block.
\* Go slice indexing (0-based) on a TLA+ sequence (1-based).
At(s, k) == Block(s[k + 1])
InRange(s, k) == k >= 0 /\ k < Len(s)

\* loadChain: the blocks of the chain file, contiguous from genesis.
LoadChain(n) == [k \in 1..n |-> Hash(Block(k - 1))]
\* Chain.Shorten(height): the first height blocks.
Shorten(c, height) == SubSeq(c, 1, height)
\* Chain.Shorten has no chain to give for a height outside 1..length
ShortenFails(c, height) == height > Len(c) \/ height < 1
\* Chain.TD(height): the sum of the difficulties of the first height blocks
\* (the bag holds block k of the chain difficulty-of-k times; its cardinality
\* is the sum)
TD(c, height) == BagCardinality([k \in 1..height |-> Block(c[k]).difficulty])
\* Chain.Head(): the last block.
ChainHead(c) == Block(c[Len(c)])

\* Chain.ForkID(): the genesis and the fork blocks of the chain configuration
\* that the chain's head has reached.
ForkBlocks == {0, 1000}
ForkID(c) == [genesis |-> c[1], passed |-> {f \in ForkBlocks : f < Len(c)}]
NoForkID == [genesis |-> 0 - 1, passed |-> {}]

\* PayloadForge
LargeNumber == 1000000
LargeBlock == [number |-> 0 - 2, hash |-> 0 - 2, difficulty |-> LargeNumber]

\* ------------------------------------------------------------------- texts
\* Error texts are sequences of characters, so that strings.Contains is a
\* substring search and not a tag comparison.
TextTimeout == <<"i", "/", "o", " ", "t", "i", "m", "e", "o", "u", "t">>
TextEOF == <<"E", "O", "F">>
TextTimedOut == <<"t", "i", "m", "e", "d", " ", "o", "u", "t">>
NeedleTimeout == <<"t", "i", "m", "e", "o", "u", "t">>

\* strings.Contains(s, sub)
Contains(s, sub) ==
    \E k \in 0..(Len(s) - Len(sub)) : SubSeq(s, k + 1, k + Len(sub)) = sub

\* ---------------------------------------------------------------- messages
M(type) ==
    [type |-> type, block |-> NoBlock, td |-> 0, hashes |-> <<>>,
     headers |-> <<>>, count |-> 0, text |-> <<>>, timeout |-> FALSE]
NoMsg == M("none")
\* no read yet: nothing sent by the peer, nothing answered
NoRead == [in |-> <<>>, served |-> <<>>]
ErrorMsg(text, isTimeout) == [M("Error") EXCEPT !.text = text, !.timeout = isTimeout]
NewBlockMsg(b, td) == [M("NewBlock") EXCEPT !.block = b, !.td = td]
NewBlockHashesMsg(hs) == [M("NewBlockHashes") EXCEPT !.hashes = hs]
BlockHeadersMsg(hs) == [M("BlockHeaders") EXCEPT !.headers = hs]
BlockBodiesMsg(n) == [M("BlockBodies") EXCEPT !.count = n]
HashEntry(b) == [hash |-> Hash(b), number |-> b.number]

\* ------------------------------------------------------------------- state
VARIABLES
    fullChain,      \* Suite.fullChain.blocks
    chain,          \* Suite.chain.blocks (the working chain)
    suite,          \* what NewSuite gave: "suite", "error" or "panic"
    loaded,         \* what loadChain gave NewSuite: error or not, block count
    runs,           \* scenarios started so far
    test,           \* the scenario that is running or has just ended
    name,           \* the name it runs under (utesting.Test.Name)
    pc,             \* its position
    prev,           \* its position before the last step
    sub,            \* the position inside setupConnection, "none" outside
    failed,         \* utesting.T: the scenario is marked failed
    exit,           \* how the scenario ended: none, return, fatal, panic
    conns,          \* the sockets the scenario has opened, in dial order
    conn,           \* local conn (index into conns, 0 is nil)
    sendConn,       \* local sendConn
    receiveConn,    \* local receiveConn
    round,          \* index of the for-range loops
    i,              \* index of the inner read loop of TestMaliciousHandshake
    nextBlock,      \* local nextBlock
    blocks,         \* local blocks of TestLargeAnnounce
    pub0,           \* local pub0 of TestMaliciousHandshake: the key it is of
    ann,            \* local blockAnnouncement / oldBlockAnnounce, NoMsg before
    msg,            \* the message ReadAndServe returned last
    lastRead,       \* what the peer sent during that read, what was answered
    statusMsg,      \* the message statusExchange returned last
    roundMsgs       \* the messages read in the current handshake round

suiteVars == <<fullChain, chain, suite, loaded>>
runVars == <<runs, test, name>>
localVars == <<conn, sendConn, receiveConn, round, i, nextBlock, blocks, pub0>>
histVars == <<ann, msg, lastRead, statusMsg, roundMsgs>>
vars == <<fullChain, chain, suite, loaded, runs, test, name, pc, prev, sub, failed, exit, conns,
          conn, sendConn, receiveConn, round, i, nextBlock, blocks, pub0, ann,
          msg, lastRead, statusMsg, roundMsgs>>

\* crypto.GenerateKey: a key no other dial has
NoKey == <<0, 0>>
FreshKey == <<runs, Len(conns) + 1>>

\* --------------------------------------------------------------- registry
\* A name is its text before a suffix and the suffix, "_66" or none.
N(base) == [base |-> base, suffix |-> ""]
N66(base) == [base |-> base, suffix |-> "_66"]
NoName == N("")
EndsIn66(n) == n.suffix = "_66"
\* utesting.Test{Name, Fn}; a function is named without its Test prefix
T(n, fn) == [name |-> n, fn |-> fn]
\* the scenario functions of the eth66 file (Suite.Test..._66)
Eth66Fns ==
    {"Status_66", "GetBlockHeaders_66", "SimultaneousRequests_66",
     "SameRequestID_66", "ZeroRequestID_66", "GetBlockBodies_66",
     "Broadcast_66", "LargeAnnounce_66", "OldAnnounce_66",
     "MaliciousHandshake_66", "Transaction_66", "MaliciousTx_66"}
AllEthTests ==
    <<T(N("Status"), "Status"),
      T(N66("Status"), "Status_66"),
      T(N("GetBlockHeaders"), "GetBlockHeaders"),
      T(N66("GetBlockHeaders"), "GetBlockHeaders_66"),
      T(N66("TestSimultaneousRequests"), "SimultaneousRequests_66"),
      T(N66("TestSameRequestID"), "SameRequestID_66"),
      T(N66("TestZeroRequestID"), "ZeroRequestID_66"),
      T(N("GetBlockBodies"), "GetBlockBodies"),
      T(N66("GetBlockBodies"), "GetBlockBodies_66"),
      T(N("Broadcast"), "Broadcast"),
      T(N66("Broadcast"), "Broadcast_66"),
      T(N("TestLargeAnnounce"), "LargeAnnounce"),
      T(N66("TestLargeAnnounce"), "LargeAnnounce_66"),
      T(N("TestOldAnnounce"), "OldAnnounce"),
      T(N66("TestOldAnnounce"), "OldAnnounce_66"),
      T(N("TestMaliciousHandshake"), "MaliciousHandshake"),
      T(N("TestMaliciousStatus"), "MaliciousStatus"),
      T(N66("TestMaliciousHandshake"), "MaliciousHandshake_66"),
      T(N66("TestMaliciousStatus"), "MaliciousStatus"),
      T(N("TestTransactions"), "Transaction"),
      T(N66("TestTransactions"), "Transaction_66"),
      T(N("TestMaliciousTransactions"), "MaliciousTx"),
      T(N66("TestMaliciousTransactions"), "MaliciousTx_66")>>
EthTests ==
    <<T(N("Status"), "Status"),
      T(N("GetBlockHeaders"), "GetBlockHeaders"),
      T(N("GetBlockBodies"), "GetBlockBodies"),
      T(N("Broadcast"), "Broadcast"),
      T(N("TestLargeAnnounce"), "LargeAnnounce"),
      T(N("TestMaliciousHandshake"), "MaliciousHandshake"),
      T(N("TestMaliciousStatus"), "MaliciousStatus"),
      T(N66("TestMaliciousStatus"), "MaliciousStatus"),
      T(N("TestTransactions"), "Transaction"),
      T(N("TestMaliciousTransactions"), "MaliciousTx")>>
Eth66Tests ==
    <<T(N66("Status"), "Status_66"),
      T(N66("GetBlockHeaders"), "GetBlockHeaders_66"),
      T(N66("TestSimultaneousRequests"), "SimultaneousRequests_66"),
      T(N66("TestSameRequestID"), "SameRequestID_66"),
      T(N66("TestZeroRequestID"), "ZeroRequestID_66"),
      T(N66("GetBlockBodies"), "GetBlockBodies_66"),
      T(N66("Broadcast"), "Broadcast_66"),
      T(N66("TestLargeAnnounce"), "LargeAnnounce_66"),
      T(N66("TestMaliciousHandshake"), "MaliciousHandshake_66"),
      T(N66("TestTransactions"), "Transaction_66"),
      T(N66("TestMaliciousTransactions"), "MaliciousTx_66")>>
InGroup(e, g) == \E k \in 1..Len(g) : g[k] = e

\* the scenario functions of suite.go that the model runs
Tests == {"Status", "MaliciousStatus", "GetBlockHeaders", "GetBlockBodies",
          "Broadcast", "MaliciousHandshake", "LargeAnnounce", "OldAnnounce"}

Entry(t) ==
    CASE t = "Status" -> "st_dial"
      [] t = "MaliciousStatus" -> "ms_dial"
      [] t = "GetBlockHeaders" -> "gh_dial"
      [] t = "GetBlockBodies" -> "gb_dial"
      [] t = "Broadcast" -> "bc_setupSend"
      [] t = "MaliciousHandshake" -> "mh_dial"
      [] t = "LargeAnnounce" -> "la_build"
      [] t = "OldAnnounce" -> "oa_setupSend"

SetupPCs == {"bc_setupSend", "bc_setupRecv", "la_setupBad", "la_setupSend",
             "la_setupRecv", "oa_setupSend", "oa_setupRecv"}

\* loadChain(chainfile, genesisfile): an error, or the blocks of the file
LoadResults ==
    {[err |-> TRUE, blocks |-> <<>>]} \cup
    {[err |-> FALSE, blocks |-> LoadChain(n)] :
        n \in (ShortenTo - MaxShort)..(ShortenTo + MaxExtra)}

\* NewSuite: a load error is returned; otherwise the loaded chain is the
\* full chain, its first 1000 blocks the working chain. chain.Shorten(1000)
\* is used as a single value: it cannot hand NewSuite an error to return,
\* its failure unwinds NewSuite.
NewSuite(load) ==
    /\ loaded = [err |-> load.err, len |-> Len(load.blocks)]
    /\ IF load.err
       THEN suite = "error" /\ fullChain = <<>> /\ chain = <<>>
       ELSE IF ShortenFails(load.blocks, ShortenTo)
       THEN suite = "panic" /\ fullChain = <<>> /\ chain = <<>>
       ELSE /\ suite = "suite"
            /\ fullChain = load.blocks
            /\ chain = Shorten(load.blocks, ShortenTo)

Init ==
    /\ \E load \in LoadResults : NewSuite(load)
    /\ runs = 0
    /\ test = "none"
    /\ name = NoName
    /\ pc = "idle"
    /\ prev = "idle"
    /\ sub = "none"
    /\ failed = FALSE
    /\ exit = "none"
    /\ conns = <<>>
    /\ conn = 0
    /\ sendConn = 0
    /\ receiveConn = 0
    /\ round = 0
    /\ i = 0
    /\ nextBlock = 0
    /\ blocks = <<>>
    /\ pub0 = NoKey
    /\ ann = NoMsg
    /\ msg = NoMsg
    /\ lastRead = NoRead
    /\ statusMsg = NoMsg
    /\ roundMsgs = <<>>

\* ------------------------------------------------------------- utesting.T
\* t.Fatalf: mark the scenario failed and leave it at once.
Fatalf ==
    failed' = TRUE /\ exit' = "fatal" /\ pc' = "done" /\ sub' = "none" /\ prev' = pc
\* the scenario function returns
ReturnWith(f) ==
    failed' = f /\ exit' = "return" /\ pc' = "done" /\ sub' = "none" /\ prev' = pc
Return == ReturnWith(failed)
\* a runtime panic (index out of range) unwinds the scenario
Panic(f) ==
    failed' = f /\ exit' = "panic" /\ pc' = "done" /\ sub' = "none" /\ prev' = pc
\* keep running at label l
Goto(l) == pc' = l /\ prev' = pc /\ UNCHANGED <<failed, exit>>
\* keep running at label l, marked failed if f (assert.Equal)
GotoWith(l, f) == pc' = l /\ prev' = pc /\ failed' = f /\ UNCHANGED exit

Passed == pc = "done" /\ exit = "return" /\ ~failed

\* ------------------------------------------------------------ connections
W(type) == [ev |-> "write", type |-> type]
D(step) == [ev |-> "done", type |-> step]

OpenSockets(cs) == Cardinality({k \in 1..Len(cs) : cs[k].open})

\* the Status statusExchange sends when the caller gives none: built from
\* the chain it is given
NoStatus == [td |-> 0, head |-> 0 - 1, genesis |-> 0 - 1, forkID |-> NoForkID]
DefaultStatus(c) ==
    [td |-> TD(c, Len(c)), head |-> Hash(ChainHead(c)), genesis |-> c[1],
     forkID |-> ForkID(c)]

DialResults == {"refused", "hsfail", "ok"}
\* Suite.dial: net.Dial may be refused (no socket); the transport handshake
\* may fail (the socket is open, no Conn is returned); otherwise the Conn
\* holds the socket, a fresh key and the default capabilities.
NoCaps == {0}
\* faulty variant of dial: the Conn advertises eth/64 only
dialWithOneCap(res) ==
    IF res = "refused" THEN conns
    ELSE Append(conns,
            [open |-> TRUE, returned |-> (res = "ok"),
             key |-> FreshKey,
             caps |-> IF res = "ok" THEN {64} ELSE {},
             peerCaps |-> NoCaps,
             version |-> 0, ready |-> FALSE, status |-> NoStatus,
             helloIDs |-> {},
             log |-> <<>>])
dial(res) ==
    IF res = "refused" THEN conns
    ELSE Append(conns,
            [open |-> TRUE, returned |-> (res = "ok"),
             key |-> FreshKey,
             caps |-> IF res = "ok" THEN OurCaps ELSE {},
             peerCaps |-> NoCaps,
             version |-> 0, ready |-> FALSE, status |-> NoStatus,
             helloIDs |-> {},
             log |-> <<>>])

Max(S) == CHOOSE x \in S : \A y \in S : y <= x
\* the capability lists of the peer's Hello: the scenarios meet a peer with
\* both versions of the harness, one with none of them, one with no list
PeerCapSets == {{64, 65}, {63}, {}}
\* and the handshake is also checked against peers that share one version
AllPeerCapSets == PeerCapSets \cup {{64}, {65, 66}}
\* Conn.handshake: write our Hello, read the peer's, negotiate the highest
\* shared version; no shared version is fatal.
Negotiable(c, peerCaps) == conns[c].caps \cap peerCaps # {}
handshake(c, peerCaps) ==
    [conns EXCEPT ![c] =
        IF Negotiable(c, peerCaps)
        THEN [@ EXCEPT !.log = @ \o <<W("Hello"), D("handshake")>>,
                       !.helloIDs = @ \cup {conns[c].key},
                       !.peerCaps = peerCaps,
                       !.version = Max(conns[c].caps \cap peerCaps)]
        ELSE [@ EXCEPT !.log = Append(@, W("Hello")),
                       !.helloIDs = @ \cup {conns[c].key},
                       !.peerCaps = peerCaps]]

StatusReplies == {M("Status"), M("Disconnect"),
                  ErrorMsg(TextTimeout, TRUE), ErrorMsg(TextEOF, FALSE)}
\* Conn.statusExchange: write our Status (or the override), read the peer's
\* answer and return it; the connection is Ready only on a Status.
statusExchange(c, status, m) ==
    [conns EXCEPT ![c] =
        [@ EXCEPT !.log = @ \o <<W("Status"), D("statusExchange")>>,
                  !.status = status,
                  !.ready = (m.type = "Status")]]

\* Conn.Write of a message of the given type
Write(c, type) == [conns EXCEPT ![c] = [@ EXCEPT !.log = Append(@, W(type))]]

\* ------------------------------------------------------------------- peer
AnnBlocks ==
    IF ann.type = "NewBlock"
    THEN {ann.block, ForgedBlock(ann.block.number)}
    ELSE {ForgedBlock(Len(chain))}
AnnTDs == IF ann.type = "NewBlock" THEN {ann.td, ann.td + 1} ELSE {LargeNumber}
H(k) == Header(At(chain, k))
HeaderLists ==
    {<<>>, <<H(1), H(3)>>, <<H(3), H(1)>>, <<H(1)>>, <<H(1), H(3), H(5)>>,
     <<H(5), H(7)>>, <<Header(ForgedBlock(1)), H(3)>>,
     <<Header(Block(Len(chain)))>>,
     <<Header(ForgedBlock(3)), Header(Block(Len(chain) + 1))>>}
HashLists ==
    {<<>>} \cup {<<HashEntry(b)>> : b \in AnnBlocks}
           \cup {<<HashEntry(ForgedBlock(0)), HashEntry(b)>> : b \in AnnBlocks}
\* what a read may return: the peer is free to send any of these
PeerMsgs ==
    {M("Hello"), M("Status"), M("Disconnect"), M("Transactions"),
     ErrorMsg(TextTimeout, TRUE), ErrorMsg(TextEOF, FALSE),
     ErrorMsg(TextTimedOut, FALSE)}
    \cup {NewBlockMsg(b, td) : b \in AnnBlocks, td \in AnnTDs}
    \cup {NewBlockHashesMsg(hs) : hs \in HashLists}
    \cup {BlockHeadersMsg(hs) : hs \in HeaderLists}
    \cup {BlockBodiesMsg(n) : n \in 0..3}

\* Conn.ReadAndServe(chain, timeout): pings and the peer's requests for
\* headers and bodies are answered and not returned; the first other message
\* is returned; with none before the deadline the result is a timeout error.
AutoTypes == {"Ping", "GetBlockHeaders", "GetBlockBodies"}
Answer(m) ==
    CASE m.type = "Ping" -> "Pong"
      [] m.type = "GetBlockHeaders" -> "BlockHeaders"
      [] m.type = "GetBlockBodies" -> "BlockBodies"
\* faulty variant: the first message is returned whatever it is
ReadFirst(in) ==
    IF in = <<>>
    THEN [msg |-> ErrorMsg(TextTimeout, TRUE), served |-> <<>>]
    ELSE [msg |-> in[1], served |-> <<>>]
RECURSIVE ReadAndServe(_)
ReadAndServe(in) ==
    IF in = <<>>
    THEN [msg |-> ErrorMsg(TextTimeout, TRUE), served |-> <<>>]
    ELSE IF in[1].type \in AutoTypes
    THEN LET rest == ReadAndServe(Tail(in))
         IN  [msg |-> rest.msg, served |-> <<Answer(in[1])>> \o rest.served]
    ELSE [msg |-> in[1], served |-> <<>>]
\* what the peer sends while a read waits: nothing or a ping and its two
\* requests, then one message of PeerMsgs or nothing before the deadline
AutoPrefixes == {<<>>, <<M("Ping"), M("GetBlockHeaders"), M("GetBlockBodies")>>}
Incoming ==
    AutoPrefixes \cup {Append(p, m) : p \in AutoPrefixes, m \in PeerMsgs}

\* ----------------------------------------------------------------- runner
\* The runner starts the next scenario on a fresh T; conns then lists the
\* sockets of the new scenario only.
StartOf(ts) ==
    /\ suite = "suite"
    /\ pc \in {"idle", "done"}
    /\ runs < MaxRuns
    /\ \E k \in 1..Len(AllEthTests) :
        LET t == AllEthTests[k].fn IN
        /\ t \in ts
        /\ test' = t
        /\ name' = AllEthTests[k].name
        /\ pc' = Entry(t)
        /\ prev' = "idle"
        /\ sub' = IF Entry(t) \in SetupPCs THEN "dial" ELSE "none"
    /\ runs' = runs + 1
    /\ failed' = FALSE
    /\ exit' = "none"
    /\ conns' = <<>>
    /\ conn' = 0 /\ sendConn' = 0 /\ receiveConn' = 0
    /\ round' = 0 /\ i' = 0 /\ nextBlock' = 0 /\ blocks' = <<>> /\ pub0' = NoKey
    /\ ann' = NoMsg /\ msg' = NoMsg /\ statusMsg' = NoMsg /\ roundMsgs' = <<>>
    /\ lastRead' = NoRead
    /\ UNCHANGED suiteVars
Start == StartOf(Tests)

\* ------------------------------------------------- scenario building blocks
\* conn, err := s.dial(); if err != nil { t.Fatalf }
DialStep(from, to) ==
    /\ pc = from
    /\ \E res \in DialResults :
        /\ conns' = dial(res)
        /\ IF res = "ok"
           THEN conn' = Len(conns) + 1 /\ Goto(to) /\ UNCHANGED sub
           ELSE conn' = 0 /\ Fatalf
    /\ UNCHANGED <<suiteVars, runVars, sendConn, receiveConn, round, i,
                   nextBlock, blocks, pub0, histVars>>

\* conn.handshake(t)
HandshakeStepWith(from, to, capSets) ==
    /\ pc = from
    /\ \E peerCaps \in capSets :
        /\ conns' = handshake(conn, peerCaps)
        /\ IF Negotiable(conn, peerCaps) THEN Goto(to) /\ UNCHANGED sub ELSE Fatalf
    /\ UNCHANGED <<suiteVars, runVars, localVars, histVars>>
HandshakeStep(from, to) == HandshakeStepWith(from, to, PeerCapSets)

\* conn.statusExchange(t, s.chain, nil), the result dropped
StatusStep(from, to) ==
    /\ pc = from
    /\ LET status == DefaultStatus(chain)
       IN  \E m \in StatusReplies :
            /\ conns' = statusExchange(conn, status, m)
            /\ statusMsg' = m
    /\ Goto(to)
    /\ UNCHANGED <<suiteVars, runVars, localVars, sub, ann, msg, lastRead, roundMsgs>>

\* if err := conn.Write(req); err != nil { t.Fatalf }
WriteStep(from, to, c, type) ==
    /\ pc = from
    /\ \E ok \in BOOLEAN :
        IF ok THEN conns' = Write(c, type) /\ Goto(to) /\ UNCHANGED sub
        ELSE Fatalf /\ UNCHANGED conns
    /\ UNCHANGED <<suiteVars, runVars, localVars, histVars>>

\* --------------------------------------------------------------- TestStatus
TestStatusDial == DialStep("st_dial", "st_handshake")
TestStatusHandshake == HandshakeStep("st_handshake", "st_status")
TestStatusExchange ==
    /\ pc = "st_status"
    /\ LET status == DefaultStatus(chain)
       IN  \E m \in StatusReplies :
            /\ conns' = statusExchange(conn, status, m)
            /\ statusMsg' = m
            /\ IF m.type = "Status" THEN Return ELSE Fatalf
    /\ UNCHANGED <<suiteVars, runVars, localVars, ann, msg, lastRead, roundMsgs>>

\* ------------------------------------------------------ TestMaliciousStatus
\* the two outcomes of the switch on the message read after the forged
\* Status: Disconnect and Error end the scenario without a failure
MaliciousStatusAcceptsAnything(m) == TRUE
MaliciousStatusAccepts(m) == m.type \in {"Disconnect", "Error"}

TestMaliciousStatusDial == DialStep("ms_dial", "ms_handshake")
TestMaliciousStatusHandshake == HandshakeStep("ms_handshake", "ms_status")
\* the forged Status: the working chain's head, genesis and fork ID with a
\* large total difficulty
MaliciousStatus ==
    [td |-> LargeNumber, head |-> Hash(At(chain, Len(chain) - 1)),
     genesis |-> Hash(At(chain, 0)), forkID |-> ForkID(chain)]
TestMaliciousStatusExchange ==
    /\ pc = "ms_status"
    /\ \E m \in StatusReplies :
        /\ conns' = statusExchange(conn, MaliciousStatus, m)
        /\ statusMsg' = m
        /\ IF m.type = "Status" THEN Goto("ms_read") /\ UNCHANGED sub ELSE Fatalf
    /\ UNCHANGED <<suiteVars, runVars, localVars, ann, msg, lastRead, roundMsgs>>
TestMaliciousStatusRead ==
    /\ pc = "ms_read"
    /\ \E in \in Incoming :
       LET m == ReadAndServe(in).msg IN
        /\ msg' = m
        /\ lastRead' = [in |-> in, served |-> ReadAndServe(in).served]
        /\ IF MaliciousStatusAccepts(m) THEN Return ELSE Fatalf
    /\ UNCHANGED <<suiteVars, runVars, localVars, conns, ann, statusMsg, roundMsgs>>

\* ------------------------------------------------------ TestGetBlockHeaders
\* the loop over the received headers: the first header whose number is not
\* an index of the working chain stops it with a panic
FirstOutOfRange(hs) ==
    IF \E k \in 1..Len(hs) : ~InRange(chain, hs[k].number)
    THEN CHOOSE k \in 1..Len(hs) :
            /\ ~InRange(chain, hs[k].number)
            /\ \A j \in 1..(k - 1) : InRange(chain, hs[j].number)
    ELSE Len(hs) + 1
\* assert.Equal(t, s.chain.blocks[int(num)].Header(), header) fails for one
\* of the first n headers
HeadersMismatch(hs, n) ==
    \E k \in 1..n : Header(At(chain, hs[k].number)) # hs[k]

TestGetBlockHeadersDial == DialStep("gh_dial", "gh_handshake")
TestGetBlockHeadersHandshake == HandshakeStep("gh_handshake", "gh_status")
TestGetBlockHeadersNoStatus ==
    /\ pc = "gh_status"
    /\ Goto("gh_write")
    /\ UNCHANGED <<suiteVars, runVars, localVars, sub, conns, histVars>>
TestGetBlockHeadersStatus == StatusStep("gh_status", "gh_write")
TestGetBlockHeadersWrite ==
    /\ InRange(chain, HeadersOrigin)
    /\ WriteStep("gh_write", "gh_read", conn, "GetBlockHeaders")
TestGetBlockHeadersRead ==
    /\ pc = "gh_read"
    /\ \E in \in Incoming :
       LET m == ReadAndServe(in).msg IN
        /\ msg' = m
        /\ lastRead' = [in |-> in, served |-> ReadAndServe(in).served]
        /\ IF m.type = "BlockHeaders"
           THEN LET stop == FirstOutOfRange(m.headers)
                    bad == failed \/ HeadersMismatch(m.headers, stop - 1)
                IN  IF stop <= Len(m.headers)
                    THEN Panic(bad)
                    ELSE ReturnWith(bad)
           ELSE Fatalf
    /\ UNCHANGED <<suiteVars, runVars, localVars, conns, ann, statusMsg, roundMsgs>>

\* ------------------------------------------------------- TestGetBlockBodies
GetBlockBodiesReq == <<BodyA, BodyB>>
TestGetBlockBodiesDial == DialStep("gb_dial", "gb_handshake")
TestGetBlockBodiesHandshake == HandshakeStep("gb_handshake", "gb_status")
TestGetBlockBodiesStatus == StatusStep("gb_status", "gb_write")
TestGetBlockBodiesWrite ==
    /\ InRange(chain, BodyA) /\ InRange(chain, BodyB)
    /\ WriteStep("gb_write", "gb_read", conn, "GetBlockBodies")
TestGetBlockBodiesRead ==
    /\ pc = "gb_read"
    /\ \E in \in Incoming :
       LET m == ReadAndServe(in).msg IN
        /\ msg' = m
        /\ lastRead' = [in |-> in, served |-> ReadAndServe(in).served]
        /\ IF m.type = "BlockBodies" THEN Return ELSE Fatalf
    /\ UNCHANGED <<suiteVars, runVars, localVars, conns, ann, statusMsg, roundMsgs>>

\* ---------------------------------------------------------- setupConnection
AfterSetup(l) ==
    CASE l = "bc_setupSend" -> "bc_setupRecv"
      [] l = "bc_setupRecv" -> "bc_announce"
      [] l = "la_setupBad" -> "la_write"
      [] l = "la_setupSend" -> "la_setupRecv"
      [] l = "la_setupRecv" -> "la_announce"
      [] l = "oa_setupSend" -> "oa_setupRecv"
      [] l = "oa_setupRecv" -> "oa_write"
IsReceiver(l) == l \in {"bc_setupRecv", "la_setupRecv", "oa_setupRecv"}

SetupDial ==
    /\ pc \in SetupPCs /\ sub = "dial"
    /\ \E res \in DialResults :
        /\ conns' = dial(res)
        /\ IF res = "ok"
           THEN conn' = Len(conns) + 1 /\ sub' = "handshake"
                /\ Goto(pc)
           ELSE conn' = 0 /\ Fatalf
    /\ UNCHANGED <<suiteVars, runVars, sendConn, receiveConn, round, i,
                   nextBlock, blocks, pub0, histVars>>
SetupHandshake ==
    /\ pc \in SetupPCs /\ sub = "handshake"
    /\ \E peerCaps \in PeerCapSets :
        /\ conns' = handshake(conn, peerCaps)
        /\ IF Negotiable(conn, peerCaps)
           THEN sub' = "status" /\ Goto(pc)
           ELSE Fatalf
    /\ UNCHANGED <<suiteVars, runVars, localVars, histVars>>
SetupStatus ==
    /\ pc \in SetupPCs /\ sub = "status"
    /\ LET status == DefaultStatus(chain)
       IN  \E m \in StatusReplies :
            /\ conns' = statusExchange(conn, status, m)
            /\ statusMsg' = m
    /\ IF IsReceiver(pc)
       THEN receiveConn' = conn /\ UNCHANGED sendConn
       ELSE sendConn' = conn /\ UNCHANGED receiveConn
    /\ Goto(AfterSetup(pc))
    /\ sub' = IF AfterSetup(pc) \in SetupPCs THEN "dial" ELSE "none"
    /\ UNCHANGED <<suiteVars, runVars, conn, round, i, nextBlock,
                   blocks, pub0, ann, msg, lastRead, roundMsgs>>

\* ----------------------------------------------- testAnnounce, waitAnnounce
\* the assertions of waitAnnounce on a received NewBlock / NewBlockHashes
MatchesHeaderOnly(a, m) == Header(a.block) = Header(m.block)
MatchesNewBlock(a, m) == Header(a.block) = Header(m.block) /\ a.td = m.td
MatchesHashes(a, m) == Hash(a.block) = m.hashes[1].hash

\* testAnnounce up to the write on sendConn
AnnounceWrite(from, to) == WriteStep(from, to, sendConn, "NewBlock")
\* waitAnnounce on receiveConn
WaitAnnounce(from, to) ==
    /\ pc = from
    /\ \E in \in Incoming :
       LET m == ReadAndServe(in).msg IN
        /\ msg' = m
        /\ lastRead' = [in |-> in, served |-> ReadAndServe(in).served]
        /\ CASE m.type = "NewBlock" ->
                    /\ GotoWith(to, failed \/ ~MatchesNewBlock(ann, m))
                    /\ UNCHANGED sub
             [] m.type = "NewBlockHashes" ->
                    IF Len(m.hashes) = 0
                    THEN Panic(failed)
                    ELSE /\ GotoWith(to, failed \/ ~MatchesHashes(ann, m))
                         /\ UNCHANGED sub
             [] OTHER -> Fatalf
    /\ UNCHANGED <<suiteVars, runVars, localVars, conns, ann, statusMsg, roundMsgs>>

\* faulty variants of the append: one grows the full chain instead of the
\* working chain, one appends the block twice, one appends the block before
\* nextBlock
AppendToFullChain(from) ==
    /\ pc = from
    /\ fullChain' = Append(fullChain, Hash(At(fullChain, nextBlock)))
    /\ \E ok \in BOOLEAN : IF ok THEN Return ELSE Fatalf
    /\ UNCHANGED <<chain, suite, loaded, runVars, localVars, conns, histVars>>
AppendTwice(from) ==
    /\ pc = from
    /\ LET b == Hash(At(fullChain, nextBlock))
       IN  chain' = Append(Append(chain, b), b)
    /\ \E ok \in BOOLEAN : IF ok THEN Return ELSE Fatalf
    /\ UNCHANGED <<fullChain, suite, loaded, runVars, localVars, conns, histVars>>
AppendPreviousBlock(from) ==
    /\ pc = from
    /\ chain' = Append(chain, Hash(At(fullChain, nextBlock - 1)))
    /\ \E ok \in BOOLEAN : IF ok THEN Return ELSE Fatalf
    /\ UNCHANGED <<fullChain, suite, loaded, runVars, localVars, conns, histVars>>
\* s.chain.blocks = append(s.chain.blocks, s.fullChain.blocks[nextBlock]),
\* then receiveConn.waitForBlock: an error is fatal
AppendAndWait(from) ==
    /\ pc = from
    /\ chain' = Append(chain, Hash(At(fullChain, nextBlock)))
    /\ \E ok \in BOOLEAN : IF ok THEN Return ELSE Fatalf
    /\ UNCHANGED <<fullChain, suite, loaded, runVars, localVars, conns, histVars>>

\* ------------------------------------------------------------ TestBroadcast
TestBroadcastAnnounce ==
    /\ pc = "bc_announce"
    /\ nextBlock' = Len(chain)
    /\ IF InRange(fullChain, Len(chain))
       THEN /\ ann' = NewBlockMsg(At(fullChain, Len(chain)), TD(fullChain, Len(chain) + 1))
            /\ Goto("bc_write") /\ UNCHANGED sub
       ELSE Panic(failed) /\ UNCHANGED ann
    /\ UNCHANGED <<suiteVars, runVars, conn, sendConn, receiveConn, round, i,
                   blocks, pub0, conns, msg, lastRead, statusMsg, roundMsgs>>
TestBroadcastWrite == AnnounceWrite("bc_write", "bc_wait")
TestBroadcastWait == WaitAnnounce("bc_wait", "bc_append")
TestBroadcastAppend == AppendAndWait("bc_append")

\* -------------------------------------------------------- TestLargeAnnounce
TestLargeAnnounceBuild ==
    /\ pc = "la_build"
    /\ nextBlock' = Len(chain)
    /\ IF InRange(fullChain, Len(chain))
       THEN /\ LET td == TD(fullChain, Len(chain) + 1)
                   b == At(fullChain, Len(chain))
               IN  blocks' = <<NewBlockMsg(LargeBlock, td),
                               NewBlockMsg(b, LargeNumber),
                               NewBlockMsg(LargeBlock, LargeNumber),
                               NewBlockMsg(b, td)>>
            /\ Goto("la_setupBad") /\ sub' = "dial"
       ELSE Panic(failed) /\ UNCHANGED blocks
    /\ round' = 0
    /\ UNCHANGED <<suiteVars, runVars, conn, sendConn, receiveConn, i, pub0,
                   conns, histVars>>
TestLargeAnnounceWrite ==
    /\ pc = "la_write"
    /\ \E ok \in BOOLEAN :
        IF ok THEN conns' = Write(sendConn, "NewBlock") /\ Goto("la_read") /\ UNCHANGED sub
        ELSE Fatalf /\ UNCHANGED conns
    /\ ann' = blocks[round + 1]
    /\ UNCHANGED <<suiteVars, runVars, localVars, msg, lastRead, statusMsg, roundMsgs>>
TestLargeAnnounceRead ==
    /\ pc = "la_read"
    /\ \E in \in Incoming :
       LET m == ReadAndServe(in).msg IN
        /\ msg' = m
        /\ lastRead' = [in |-> in, served |-> ReadAndServe(in).served]
        /\ IF m.type \in {"Disconnect", "Error"}
           THEN /\ round' = round + 1
                /\ Goto(IF round + 1 < NumBadAnnounce THEN "la_setupBad" ELSE "la_setupSend")
                /\ sub' = "dial"
           ELSE Fatalf /\ UNCHANGED round
    /\ UNCHANGED <<suiteVars, runVars, conn, sendConn, receiveConn, i, nextBlock,
                   blocks, pub0, conns, ann, statusMsg, roundMsgs>>
TestLargeAnnounceAnnounce ==
    /\ pc = "la_announce"
    /\ \E ok \in BOOLEAN :
        IF ok THEN conns' = Write(sendConn, "NewBlock") /\ Goto("la_wait") /\ UNCHANGED sub
        ELSE Fatalf /\ UNCHANGED conns
    /\ ann' = blocks[NumBadAnnounce + 1]
    /\ UNCHANGED <<suiteVars, runVars, localVars, msg, lastRead, statusMsg, roundMsgs>>
TestLargeAnnounceWait == WaitAnnounce("la_wait", "la_append")
TestLargeAnnounceAppend == AppendAndWait("la_append")

\* ---------------------------------------------- TestOldAnnounce, oldAnnounce
\* strings.Contains(errMsg.String(), "timeout")
IsTimeoutError(m) == Contains(m.text, NeedleTimeout)
\* the switch of oldAnnounce: only a timeout error lets the scenario pass
OldAnnounceAcceptsAnyError(m) == m.type = "Error"
OldAnnounceAccepts(m) == m.type = "Error" /\ IsTimeoutError(m)

oldAnnounceWrite ==
    /\ pc = "oa_write"
    /\ LET old == At(chain, Len(chain) \div 2)
       IN  ann' = NewBlockMsg(old, old.difficulty)
    /\ \E ok \in BOOLEAN :
        IF ok THEN conns' = Write(sendConn, "NewBlock") /\ Goto("oa_read") /\ UNCHANGED sub
        ELSE Fatalf /\ UNCHANGED conns
    /\ UNCHANGED <<suiteVars, runVars, localVars, msg, lastRead, statusMsg, roundMsgs>>
oldAnnounceRead ==
    /\ pc = "oa_read"
    /\ \E in \in Incoming :
       LET m == ReadAndServe(in).msg IN
        /\ msg' = m
        /\ lastRead' = [in |-> in, served |-> ReadAndServe(in).served]
        /\ IF OldAnnounceAccepts(m) THEN Return ELSE Fatalf
    /\ UNCHANGED <<suiteVars, runVars, localVars, conns, ann, statusMsg, roundMsgs>>

\* --------------------------------------------------- TestMaliciousHandshake
\* the switch of the inner read loop: these messages do not fail the round
HandshakeToleratesStatus(m) ==
    m.type \in {"Disconnect", "Error", "Hello", "Status"}
HandshakeTolerates(m) == m.type \in {"Disconnect", "Error", "Hello"}

\* the keys whose bytes the ID of handshakes[k] holds: pub0 in the first
\* three (pub0, append(pub0, 0), append(pub0, pub0...)), none in the last
\* two (largeBuffer(2))
HandshakeIDKeys(k) == IF k < 3 THEN {pub0} ELSE {}
\* conn.Write(handshake)
WriteHello(c, ids) ==
    [conns EXCEPT ![c] = [@ EXCEPT !.log = Append(@, W("Hello")),
                                  !.helloIDs = @ \cup ids]]

TestMaliciousHandshakeDial ==
    /\ pc = "mh_dial"
    /\ \E res \in DialResults :
        /\ conns' = dial(res)
        /\ IF res = "ok"
           THEN /\ conn' = Len(conns) + 1
                /\ pub0' = FreshKey
                /\ Goto("mh_write") /\ UNCHANGED sub
           ELSE conn' = 0 /\ Fatalf /\ UNCHANGED pub0
    /\ UNCHANGED <<suiteVars, runVars, sendConn, receiveConn, round, i,
                   nextBlock, blocks, histVars>>
TestMaliciousHandshakeWrite ==
    /\ pc = "mh_write"
    /\ round < NumHandshakes
    /\ \E ok \in BOOLEAN :
        IF ok THEN /\ conns' = WriteHello(conn, HandshakeIDKeys(round))
                   /\ Goto("mh_read") /\ UNCHANGED sub
        ELSE Fatalf /\ UNCHANGED conns
    /\ i' = 0
    /\ roundMsgs' = <<>>
    /\ UNCHANGED <<suiteVars, runVars, conn, sendConn, receiveConn, round,
                   nextBlock, blocks, pub0, ann, msg, lastRead, statusMsg>>
\* faulty variant of the read loop: a Hello is discarded without counting
\* as one of the two reads
ReadRetryingOnHello ==
    /\ pc = "mh_read"
    /\ i < NumReads
    /\ \E in \in Incoming :
       LET m == ReadAndServe(in).msg IN
        /\ msg' = m
        /\ lastRead' = [in |-> in, served |-> ReadAndServe(in).served]
        /\ IF m.type = "Hello"
           THEN Goto("mh_read") /\ UNCHANGED <<sub, i, roundMsgs>>
           ELSE /\ roundMsgs' = Append(roundMsgs, m)
                /\ IF HandshakeTolerates(m)
                   THEN /\ i' = i + 1
                        /\ Goto(IF i + 1 < NumReads THEN "mh_read"
                                ELSE "mh_redial")
                        /\ UNCHANGED sub
                   ELSE Fatalf /\ UNCHANGED i
    /\ UNCHANGED <<suiteVars, runVars, conn, sendConn, receiveConn, round,
                   nextBlock, blocks, pub0, conns, ann, statusMsg>>
\* the inner loop: for i := 0; i < 2; i++ { switch ReadAndServe ... }
TestMaliciousHandshakeRead ==
    /\ pc = "mh_read"
    /\ i < NumReads
    /\ \E in \in Incoming :
       LET m == ReadAndServe(in).msg IN
        /\ msg' = m
        /\ lastRead' = [in |-> in, served |-> ReadAndServe(in).served]
        /\ roundMsgs' = Append(roundMsgs, m)
        /\ IF HandshakeTolerates(m)
           THEN /\ i' = i + 1
                /\ Goto(IF i + 1 < NumReads THEN "mh_read" ELSE "mh_redial")
                /\ UNCHANGED sub
           ELSE Fatalf /\ UNCHANGED i
    /\ UNCHANGED <<suiteVars, runVars, conn, sendConn, receiveConn, round,
                   nextBlock, blocks, pub0, conns, ann, statusMsg>>
\* faulty variant of the re-dial: a failed dial is not checked and the next
\* round goes on with the connection of the round before
RedialIgnoringError ==
    /\ pc = "mh_redial"
    /\ \E res \in DialResults :
        /\ conns' = dial(res)
        /\ conn' = IF res = "ok" THEN Len(conns) + 1 ELSE conn
        /\ round' = round + 1
        /\ IF round + 1 < NumHandshakes
           THEN Goto("mh_write") /\ UNCHANGED sub
           ELSE Return
    /\ UNCHANGED <<suiteVars, runVars, sendConn, receiveConn, i, nextBlock,
                   blocks, pub0, histVars>>
\* conn, err = s.dial() for the next round; an error is fatal
TestMaliciousHandshakeRedial ==
    /\ pc = "mh_redial"
    /\ \E res \in DialResults :
        /\ conns' = dial(res)
        /\ IF res = "ok"
           THEN /\ conn' = Len(conns) + 1
                /\ round' = round + 1
                /\ IF round + 1 < NumHandshakes
                   THEN Goto("mh_write") /\ UNCHANGED sub
                   ELSE Return
           ELSE conn' = 0 /\ Fatalf /\ UNCHANGED round
    /\ UNCHANGED <<suiteVars, runVars, sendConn, receiveConn, i, nextBlock,
                   blocks, pub0, histVars>>

Next ==
    \/ Start
    \/ TestStatusDial \/ TestStatusHandshake \/ TestStatusExchange
    \/ TestMaliciousStatusDial \/ TestMaliciousStatusHandshake
    \/ TestMaliciousStatusExchange \/ TestMaliciousStatusRead
    \/ TestGetBlockHeadersDial \/ TestGetBlockHeadersHandshake
    \/ TestGetBlockHeadersStatus \/ TestGetBlockHeadersWrite
    \/ TestGetBlockHeadersRead
    \/ TestGetBlockBodiesDial \/ TestGetBlockBodiesHandshake
    \/ TestGetBlockBodiesStatus \/ TestGetBlockBodiesWrite
    \/ TestGetBlockBodiesRead
    \/ SetupDial \/ SetupHandshake \/ SetupStatus
    \/ TestBroadcastAnnounce \/ TestBroadcastWrite \/ TestBroadcastWait
    \/ TestBroadcastAppend
    \/ TestLargeAnnounceBuild \/ TestLargeAnnounceWrite \/ TestLargeAnnounceRead
    \/ TestLargeAnnounceAnnounce \/ TestLargeAnnounceWait
    \/ TestLargeAnnounceAppend
    \/ oldAnnounceWrite \/ oldAnnounceRead
    \/ TestMaliciousHandshakeDial \/ TestMaliciousHandshakeWrite
    \/ TestMaliciousHandshakeRead \/ TestMaliciousHandshakeRedial

Spec == Init /\ [][Next]_vars

\* ------------------------------------------------- the capability handshake
\* The scenarios with one connection, TestStatus and TestGetBlockHeaders,
\* against a peer whose Hello holds any list of AllPeerCapSets.
StartHandshakeTests == StartOf({"Status", "GetBlockHeaders"})
TestStatusHandshakeAny ==
    HandshakeStepWith("st_handshake", "st_status", AllPeerCapSets)
TestGetBlockHeadersHandshakeAny ==
    HandshakeStepWith("gh_handshake", "gh_status", AllPeerCapSets)
NextHandshake ==
    \/ StartHandshakeTests
    \/ TestStatusDial \/ TestStatusHandshakeAny \/ TestStatusExchange
    \/ TestGetBlockHeadersDial \/ TestGetBlockHeadersHandshakeAny
    \/ TestGetBlockHeadersStatus \/ TestGetBlockHeadersWrite
    \/ TestGetBlockHeadersRead
SpecHandshake == Init /\ [][NextHandshake]_vars

\* --------------------------------- TestMaliciousHandshake run to its end
\* The scenario function runs on its goroutine until it returns: each of its
\* steps (a dial, a write, a read with its deadline) comes to an end, so
\* each is taken when it stays enabled. The runner need not start a scenario.
StartMaliciousHandshake == StartOf({"MaliciousHandshake"})
NextTermination ==
    \/ StartMaliciousHandshake
    \/ TestMaliciousHandshakeDial \/ TestMaliciousHandshakeWrite
    \/ TestMaliciousHandshakeRead \/ TestMaliciousHandshakeRedial
SpecTermination ==
    /\ Init
    /\ [][NextTermination]_vars
    /\ WF_vars(TestMaliciousHandshakeDial)
    /\ WF_vars(TestMaliciousHandshakeWrite)
    /\ WF_vars(TestMaliciousHandshakeRead)
    /\ WF_vars(TestMaliciousHandshakeRedial)

\* ================================================================== claims
IsDisconnectOrError(m) == m.type \in {"Disconnect", "Error"}

\* C1: every connection a scenario opens is closed before the scenario
\* returns, on every exit path; no socket is open once a scenario has ended.
C1_NoSocketOpenAtEnd ==
    pc = "done" => \A k \in 1..Len(conns) : ~conns[k].open

\* C2: in the malicious-handshake scenario a round is accepted only if one of
\* the at most two messages read after the forged Hello is a Disconnect or
\* an Error; Hello messages alone fail the scenario.
C2_RoundAcceptedOnlyOnDisconnect ==
    (test = "MaliciousHandshake" /\ pc = "mh_redial")
        => \E k \in 1..Len(roundMsgs) : IsDisconnectOrError(roundMsgs[k])

AnnouncementMatched ==
    \/ /\ msg.type = "NewBlock"
       /\ Header(msg.block) = Header(ann.block)
       /\ msg.td = ann.td
    \/ /\ msg.type = "NewBlockHashes"
       /\ Len(msg.hashes) >= 1
       /\ msg.hashes[1].hash = Hash(ann.block)

\* C4: after the announcement is written, the propagation check is left
\* without a failure only when the receiver got a NewBlock with the header
\* and TD of the announcement or a NewBlockHashes whose first hash is the
\* announced block's; any other message type (timeout, Disconnect, ...) marks
\* the scenario failed.
C4_SuccessOnlyOnMatch ==
    /\ (pc \in {"bc_append", "la_append"} /\ ~failed) => AnnouncementMatched
    /\ (pc = "done" /\ prev \in {"bc_wait", "la_wait"}
            /\ msg.type \notin {"NewBlock", "NewBlockHashes"})
        => (failed /\ exit = "fatal")
C4_Witness ==
    /\ pc = "bc_append" /\ ~failed
    /\ msg.type = "NewBlock" /\ msg = ann

\* C5: the working chain is appended to only when the receiver has delivered
\* a matching announcement; on a mismatch the working chain stays unchanged.
C5_AppendOnlyAfterMatch ==
    [][chain' # chain => AnnouncementMatched]_vars

ExpectedHeaders ==
    [k \in 1..HeadersAmount |-> H(HeadersOrigin + (k - 1) * (HeadersSkip + 1))]
\* C7: the GetBlockHeaders scenario passes only if the response holds exactly
\* the headers of blocks 1 and 3.
C7_PassOnlyOnExactHeaders ==
    (test = "GetBlockHeaders" /\ Passed)
        => /\ msg.type = "BlockHeaders"
           /\ msg.headers = ExpectedHeaders

\* C8: the GetBlockBodies scenario passes only if the response holds as many
\* bodies as hashes were requested.
C8_PassOnlyOnBodyCount ==
    (test = "GetBlockBodies" /\ Passed)
        => /\ msg.type = "BlockBodies"
           /\ msg.count = Len(GetBlockBodiesReq)

\* C9: no peer response ends a scenario in a runtime panic: reading a
\* BlockHeaders response or waiting for an announcement never ends in an
\* out-of-range access.
C9_NoPanicOnResponse ==
    ~(exit = "panic" /\ prev \in {"gh_read", "bc_wait", "la_wait"})

\* the events of connection c from which event k follows
Before(c, k, e) == \E j \in 1..(k - 1) : conns[c].log[j] = e
\* C10: on every connection a message other than Hello (and the Status of
\* the status exchange) is written only after dial, capability handshake and
\* status exchange, in this order; the status exchange runs only after the
\* capability handshake.
C10_SetupBeforeWrites ==
    \A c \in 1..Len(conns) : \A k \in 1..Len(conns[c].log) :
        LET e == conns[c].log[k]
        IN  /\ conns[c].returned
            /\ (e.ev = "write" /\ e.type \notin {"Hello", "Status"})
                => \E j \in 1..(k - 1) :
                      /\ conns[c].log[j] = D("statusExchange")
                      /\ Before(c, j, D("handshake"))
            /\ (e = W("Status") \/ e = D("statusExchange"))
                => Before(c, k, D("handshake"))
C10_Witness ==
    \E c \in 1..Len(conns) : \E k \in 1..Len(conns[c].log) :
        conns[c].log[k] = W("GetBlockHeaders")

\* C11: a request or an announcement is written on a connection only if its
\* status exchange returned a Status (the connection is Ready); after a
\* Disconnect, an Error or a timeout nothing further is written on it.
C11_WritesOnlyWhenReady ==
    \A c \in 1..Len(conns) : \A k \in 1..Len(conns[c].log) :
        LET e == conns[c].log[k]
        IN  (e.ev = "write" /\ e.type \notin {"Hello", "Status"})
                => conns[c].ready

\* C12: every Status the harness sends, the forged one included, carries the
\* fork ID of the full chain.
C12_StatusCarriesFullForkID ==
    \A c \in 1..Len(conns) :
        conns[c].status # NoStatus => conns[c].status.forkID = ForkID(fullChain)

\* C13: no Hello written on a connection carries identity bytes derived from
\* the ephemeral key of another connection.
C13_HelloCarriesOwnKeyOnly ==
    \A c \in 1..Len(conns) : conns[c].helloIDs \subseteq {conns[c].key}

\* C14: no step of any scenario, passing or failing, changes the block
\* sequence of the full reference chain; only the working chain grows.
C14_FullChainReadOnly == [][fullChain' = fullChain]_vars
\* a scenario has ended after growing the working chain
C14_Witness == pc = "done" /\ Len(chain) > ShortenTo /\ prev \in {"bc_append", "la_append"}

\* C15: the working chain is a prefix of the full reference chain: it has
\* at least one block and at most as many as the full chain, and each of its
\* blocks has the hash of the full chain's block at the same index (the
\* chains hold their blocks by hash).
C15_WorkingChainIsPrefix ==
    suite = "suite" =>
        /\ Len(chain) >= 1
        /\ Len(chain) <= Len(fullChain)
        /\ chain = SubSeq(fullChain, 1, Len(chain))
\* the working chain has grown past the shortened length and a later
\* scenario has failed
C15_Witness == Len(chain) > ShortenTo /\ pc = "done" /\ failed /\ runs = MaxRuns

\* C16: when the loaded chain has fewer than 1000 blocks, NewSuite returns
\* an error and no Suite, as it does when loading fails.
C16_ShortChainIsError ==
    (loaded.err \/ loaded.len < ShortenTo) => suite = "error"

\* C17: a step in which dial fails (socket refused or transport handshake
\* error) gives the scenario no connection and ends it as failed at once:
\* nothing is written or read in that step, and after the end of a scenario
\* the only step is the start of the next one on fresh connections.
AtDial ==
    \/ pc \in {"st_dial", "ms_dial", "gh_dial", "gb_dial", "mh_dial", "mh_redial"}
    \/ pc \in SetupPCs /\ sub = "dial"
DialFailed ==
    AtDial /\ (conns' = conns \/ ~conns'[Len(conns')].returned)
C17_DialFailureAborts ==
    [][ /\ DialFailed =>
            /\ pc' = "done" /\ exit' = "fatal" /\ failed'
            /\ conn' = 0
            /\ Len(conns') \notin {sendConn', receiveConn'} \ {Len(conns)}
            /\ \A c \in 1..Len(conns) : conns'[c] = conns[c]
            /\ conns' = conns \/ conns'[Len(conns')].log = <<>>
            /\ msg' = msg /\ lastRead' = lastRead /\ roundMsgs' = roundMsgs
        /\ pc = "done" => conns' = <<>> /\ msg' = NoMsg /\ runs' = runs + 1
      ]_vars
\* the re-dial after a round of the malicious-handshake scenario has failed
\* on the transport handshake
C17_Witness ==
    /\ pc = "done" /\ prev = "mh_redial" /\ exit = "fatal" /\ failed
    /\ conn = 0 /\ Len(conns) >= 2 /\ ~conns[Len(conns)].returned

\* C18: on a connection whose capability handshake has read the peer's
\* list, the negotiated version is the highest version present both in the
\* list the harness advertises (eth/64, eth/65) and in the peer's list; with
\* no shared version the handshake fails (no version, the scenario is ended
\* as failed); a negotiated version never changes on that connection.
Negotiated(cn) ==
    IF OurCaps \cap cn.peerCaps = {}
    THEN /\ cn.version = 0
         /\ \A k \in 1..Len(cn.log) : cn.log[k] # D("handshake")
         /\ pc = "done" /\ exit = "fatal" /\ failed
    ELSE /\ cn.version \in OurCaps \cap cn.peerCaps
         /\ \A v \in OurCaps \cap cn.peerCaps : v <= cn.version
FirstReturned(in) ==
    {k \in 1..Len(in) : in[k].type \notin AutoTypes
                        /\ \A j \in 1..(k - 1) : in[j].type \in AutoTypes}
C19_ReturnsFirstNotAutoHandled ==
    /\ msg.type \notin AutoTypes
    /\ \A k \in FirstReturned(lastRead.in) :
        /\ msg = lastRead.in[k]
        /\ Len(lastRead.served) = k - 1
    /\ (FirstReturned(lastRead.in) = {} /\ msg # NoMsg) =>
        /\ msg.type = "Error" /\ msg.timeout
        /\ Len(lastRead.served) = Len(lastRead.in)
    /\ \A k \in 1..Len(lastRead.served) :
        lastRead.served[k] = Answer(lastRead.in[k])
\* a read has answered a ping and two requests and returned the headers
\* that came after them
C19_Witness ==
    /\ prev = "gh_read" /\ msg.type = "BlockHeaders"
    /\ Len(lastRead.in) = 4 /\ lastRead.in[1].type = "Ping"
    /\ lastRead.served = <<"Pong", "BlockHeaders", "BlockBodies">>

\* C20: in the read loop of TestMaliciousHandshake a message of the round
\* that is not a Disconnect, an Error or a Hello is the last one read and
\* has ended the scenario as failed, whether it came first or second; and a
\* read ends the scenario as failed only on such a message.
C20_OnlyHelloSkipped ==
    test = "MaliciousHandshake" =>
        /\ \A k \in 1..Len(roundMsgs) :
            roundMsgs[k].type \notin {"Disconnect", "Error", "Hello"} =>
                /\ k = Len(roundMsgs)
                /\ pc = "done" /\ exit = "fatal" /\ failed /\ prev = "mh_read"
        /\ (pc = "done" /\ prev = "mh_read") =>
            /\ exit = "fatal"
            /\ roundMsgs[Len(roundMsgs)].type \notin {"Disconnect", "Error", "Hello"}
\* a Status read as the second message after a Disconnect has failed the
\* scenario
C20_Witness ==
    /\ test = "MaliciousHandshake" /\ pc = "done" /\ exit = "fatal"
    /\ Len(roundMsgs) = 2
    /\ roundMsgs[1].type = "Disconnect" /\ roundMsgs[2].type = "Status"

\* C21: a step changes the working chain only in TestBroadcast and
\* TestLargeAnnounce, only by appending the full chain's block at the index
\* equal to the working chain's length before the step, and that step ends
\* the scenario, so a run appends one block at most; the steps of every
\* other scenario leave the working chain as it is.
C21_OnlyPropagationAppendsOne ==
    [][chain' # chain =>
        /\ test \in {"Broadcast", "LargeAnnounce"}
        /\ test' = test
        /\ pc \in {"bc_append", "la_append"} /\ pc' = "done"
        /\ Len(chain) < Len(fullChain)
        /\ chain' = Append(chain, Hash(At(fullChain, Len(chain))))
      ]_vars
\* TestLargeAnnounce has appended the block after the shortened chain in the
\* second run, after a first run of a scenario that appends nothing
C21_Witness ==
    /\ test = "LargeAnnounce" /\ pc = "done" /\ prev = "la_append"
    /\ runs = 2 /\ Len(chain) = ShortenTo + 1
    /\ chain[ShortenTo + 1] = fullChain[ShortenTo + 1]

\* C22: when a propagation scenario builds its announcement for the full
\* chain's block N, N the working chain's length, N + 1 does not exceed the
\* full chain's length (and the TD announced is the full chain's TD(N + 1)).
C22_AnnouncedBlockInFullChain ==
    /\ pc \in {"bc_announce", "la_build"} => Len(chain) + 1 <= Len(fullChain)
    /\ pc \in {"bc_wait", "la_wait"} =>
        /\ ann.block = At(fullChain, nextBlock)
        /\ ann.td = TD(fullChain, nextBlock + 1)

\* C23: the entry a scenario runs under is bound to a correlation-id
\* function exactly when its name ends in _66; an entry of the legacy-only
\* group is no correlation-id scenario by name or function, one of the
\* correlation-id-only group is no legacy one.
Running == T(name, test)
C23_SuffixMatchesFunction ==
    test # "none" =>
        /\ EndsIn66(name) <=> test \in Eth66Fns
        /\ InGroup(Running, EthTests) =>
            ~EndsIn66(name) /\ test \notin Eth66Fns
        /\ InGroup(Running, Eth66Tests) =>
            EndsIn66(name) /\ test \in Eth66Fns

\* C24: the entry of the full group a scenario runs under is in exactly one
\* of the legacy-only and the correlation-id-only group, and every entry of
\* these two groups is an entry of the full group.
C24_FullGroupIsUnion ==
    /\ test # "none" =>
        InGroup(Running, EthTests) # InGroup(Running, Eth66Tests)
    /\ \A k \in 1..Len(EthTests) : InGroup(EthTests[k], AllEthTests)
    /\ \A k \in 1..Len(Eth66Tests) : InGroup(Eth66Tests[k], AllEthTests)

\* C25: TestMaliciousHandshake opens no more connections than it has forged
\* Hellos, writes one Hello at most on each, as its first write, and does
\* not end as failed on a dial made after the last forged Hello was judged.
C25_OneDialPerForgedHello ==
    test = "MaliciousHandshake" =>
        /\ Len(conns) <= NumHandshakes
        /\ \A c \in 1..Len(conns) :
            conns[c].log \in {<<>>, <<W("Hello")>>}
        /\ ~(/\ pc = "done" /\ prev = "mh_redial" /\ failed
             /\ round = NumHandshakes - 1)

====
